---- MODULE Spec2Model ----
(***************************************************************************)
(* Model of philrs232 (src/main.go): a single-shot SICP (RS232C) command   *)
(* sender for the Philips BDM4065UC display.  The source holds two         *)
(* revisions of the program: the bare-payload revision (lines 1-208, with  *)
(* -cust and -alt) and the pre-framed revision (lines 210-386).  The       *)
(* variable rev selects which of the two programs runs.                    *)
(*                                                                         *)
(* Bytes are integers 0..255.  A 32-bit flag word (uint32) is the set of   *)
(* its set bit positions (a subset of 0..31): x &= ^m is x \ m and         *)
(* x |= m is x \cup m.  Strings given on the command line are sequences    *)
(* of byte values (ASCII codes).                                           *)
(***************************************************************************)
EXTENDS Integers, Sequences, FiniteSets, TLC

\* ------------------------------------------------------------------------
\* Bounds of the model
\* ------------------------------------------------------------------------

\* longest custom payload (in bytes) given with -cust
MaxCustLen == 254

\* shortest of the long custom payloads given with -cust
MinLongCust == 250

\* ------------------------------------------------------------------------
\* Bytes and words
\* ------------------------------------------------------------------------

Bytes == 0..255

\* Go's byte(x) conversion of a non-negative int: the low 8 bits
ToByte(x) == x % 256

RECURSIVE XorBits(_, _, _)
\* bitwise exclusive-or of the low k bits of a and b
XorBits(a, b, k) ==
    IF k = 0 THEN 0
    ELSE ((a + b) % 2) + 2 * XorBits(a \div 2, b \div 2, k - 1)

\* ret ^= v[n] on bytes
Xor(a, b) == XorBits(a, b, 8)

\* the set of bit positions set in the 16-bit number x
Bits16(x) == {i \in 0..15 : (x \div (2 ^ i)) % 2 = 1}

\* the uint32 word hi * 2^16 + lo as the set of its set bits
Word(hi, lo) == Bits16(lo) \cup {i + 16 : i \in Bits16(hi)}

\* ------------------------------------------------------------------------
\* Constants of the program and of the syscall package (linux)
\* ------------------------------------------------------------------------

\* CRTSCTS = 0x80000000
CRTSCTS == Word(32768, 0)
\* CBAUD = 0x100F
CBAUD == Word(0, 4111)
\* syscall.PARENB = 0x100
PARENB == Word(0, 256)
\* syscall.CSTOPB = 0x40
CSTOPB == Word(0, 64)
\* syscall.CS8 = 0x30
CS8 == Word(0, 48)
\* syscall.CLOCAL = 0x800
CLOCAL == Word(0, 2048)
\* syscall.CREAD = 0x80
CREAD == Word(0, 128)
\* syscall.IGNPAR = 0x4
IGNPAR == Word(0, 4)
\* syscall.B1200 = 0x9
B1200 == Word(0, 9)
\* syscall.B9600 = 0xd
B9600 == Word(0, 13)
\* syscall.B19200 = 0xe
B19200 == Word(0, 14)
\* syscall.B38400 = 0xf
B38400 == Word(0, 15)
\* syscall.B57600 = 0x1001
B57600 == Word(0, 4097)
\* syscall.B115200 = 0x1002
B115200 == Word(0, 4098)

\* the address prefix "\xA6\x01\x00\x00\x00"
Prefix == <<166, 1, 0, 0, 0>>

\* size of the response buffer: make([]byte, 32)
RespSize == 32

\* ------------------------------------------------------------------------
\* csum and printhex
\* ------------------------------------------------------------------------

RECURSIVE csumRange(_, _, _, _)
\* the loop "for n := range v { ret ^= v[n] }" over v[i..j], from ret
csumRange(v, i, j, ret) ==
    IF i > j THEN ret
    ELSE csumRange(v, i + 1, j, Xor(ret, v[i]))

RECURSIVE csumFrom(_, _, _)
\* the same loop over v[i..], sixteen iterations at a time (this keeps the
\* evaluation depth small; the order of the iterations is the loop's)
csumFrom(v, i, ret) ==
    IF i > Len(v) THEN ret
    ELSE LET j == IF i + 15 < Len(v) THEN i + 15 ELSE Len(v)
             r == csumRange(v, i, j, ret)
         IN  IF r \in Bytes THEN csumFrom(v, j + 1, r) ELSE r

\* func csum(v []byte) byte
csum(v) == csumFrom(v, 1, 0)

\* a printhex that does not stop at max
printhexAll(v, max) == SubSeq(v, 1, Len(v))

\* func printhex(v []byte, max int): the bytes it prints, in order
printhex(v, max) ==
    SubSeq(v, 1, IF max < Len(v) THEN (IF max < 0 THEN 0 ELSE max) ELSE Len(v))

\* ------------------------------------------------------------------------
\* The command tables
\* ------------------------------------------------------------------------

\* commands := map[string]string{...} of the bare-payload revision
commands ==
    [ k \in {} |-> <<>> ]
    @@ "ON"        :> <<24, 2>>
    @@ "OFF"       :> <<24, 1>>
    @@ "PIC-NORM"  :> <<58, 0>>
    @@ "PIC-CUST"  :> <<58, 1>>
    @@ "PIC-REAL"  :> <<58, 2>>
    @@ "PIC-FULL"  :> <<58, 3>>
    @@ "PIC-21-9"  :> <<58, 4>>
    @@ "PIC-DYN"   :> <<58, 5>>
    @@ "PIP-OFF"   :> <<60, 0, 0, 0, 0>>
    @@ "PIP-BL"    :> <<60, 1, 0, 0, 0>>
    @@ "PIP-TL"    :> <<60, 1, 1, 0, 0>>
    @@ "PIP-TR"    :> <<60, 1, 2, 0, 0>>
    @@ "PIP-BR"    :> <<60, 1, 3, 0, 0>>
    @@ "VOL0"      :> <<68, 0>>
    @@ "VOL10"     :> <<68, 10>>
    @@ "VOL20"     :> <<68, 20>>
    @@ "VOL30"     :> <<68, 30>>
    @@ "VOL40"     :> <<68, 40>>
    @@ "VOL50"     :> <<68, 50>>
    @@ "VOL60"     :> <<68, 60>>
    @@ "VOL70"     :> <<68, 70>>
    @@ "VOL80"     :> <<68, 80>>
    @@ "VOL90"     :> <<68, 90>>
    @@ "VOL100"    :> <<68, 100>>
    @@ "REP-INPUT" :> <<173>>
    @@ "IN-VGA"    :> <<172, 5, 0, 1, 0>>
    @@ "IN-HDMI"   :> <<172, 6, 2, 1, 0>>
    @@ "IN-MHDMI"  :> <<172, 6, 3, 1, 0>>
    @@ "IN-DP"     :> <<172, 9, 4, 1, 0>>
    @@ "IN-MDP"    :> <<172, 9, 5, 1, 0>>

\* commands := map[string]string{...} of the pre-framed revision
commandsPreFramed ==
    [ k \in {} |-> <<>> ]
    @@ "ON"         :> <<166, 1, 0, 0, 0, 4, 1, 24, 2>>
    @@ "OFF"        :> <<166, 1, 0, 0, 0, 4, 1, 24, 1>>
    @@ "PIP-OFF"    :> <<166, 1, 0, 0, 0, 7, 1, 60, 0, 0, 0, 0>>
    @@ "PIP-BL"     :> <<166, 1, 0, 0, 0, 7, 1, 60, 1, 0, 0, 0>>
    @@ "PIP-TL"     :> <<166, 1, 0, 0, 0, 7, 1, 60, 1, 1, 0, 0>>
    @@ "PIP-TR"     :> <<166, 1, 0, 0, 0, 7, 1, 60, 1, 2, 0, 0>>
    @@ "PIP-BR"     :> <<166, 1, 0, 0, 0, 7, 1, 60, 1, 3, 0, 0>>
    @@ "VOL0"       :> <<166, 1, 0, 0, 0, 4, 1, 68, 0>>
    @@ "VOL10"      :> <<166, 1, 0, 0, 0, 4, 1, 68, 10>>
    @@ "VOL20"      :> <<166, 1, 0, 0, 0, 4, 1, 68, 20>>
    @@ "VOL30"      :> <<166, 1, 0, 0, 0, 4, 1, 68, 30>>
    @@ "VOL40"      :> <<166, 1, 0, 0, 0, 4, 1, 68, 40>>
    @@ "VOL50"      :> <<166, 1, 0, 0, 0, 4, 1, 68, 50>>
    @@ "VOL60"      :> <<166, 1, 0, 0, 0, 4, 1, 68, 60>>
    @@ "VOL70"      :> <<166, 1, 0, 0, 0, 4, 1, 68, 70>>
    @@ "VOL80"      :> <<166, 1, 0, 0, 0, 4, 1, 68, 80>>
    @@ "VOL90"      :> <<166, 1, 0, 0, 0, 4, 1, 68, 90>>
    @@ "VOL100"     :> <<166, 1, 0, 0, 0, 4, 1, 68, 100>>
    @@ "PIC-NORM"   :> <<166, 1, 0, 0, 0, 4, 1, 58, 0>>
    @@ "PIC-CUST"   :> <<166, 1, 0, 0, 0, 4, 1, 58, 1>>
    @@ "PIC-REAL"   :> <<166, 1, 0, 0, 0, 4, 1, 58, 2>>
    @@ "PIC-FULL"   :> <<166, 1, 0, 0, 0, 4, 1, 58, 3>>
    @@ "PIC-219"    :> <<166, 1, 0, 0, 0, 4, 1, 58, 4>>
    @@ "PIC-DYN  "  :> <<166, 1, 0, 0, 0, 4, 1, 58, 5>>
    @@ "MODE-GAME"  :> <<166, 1, 0, 0, 0, 10, 1, 50, 100, 100, 100, 90, 100, 0, 3>>
    @@ "MODE-OFF"   :> <<166, 1, 0, 0, 0, 10, 1, 50, 95, 50, 50, 50, 50, 0, 3>>
    @@ "TEMP-USER"  :> <<166, 1, 0, 0, 0, 4, 1, 52, 0>>
    @@ "TEMP-NATU"  :> <<166, 1, 0, 0, 0, 4, 1, 52, 1>>
    @@ "TEMP-3000"  :> <<166, 1, 0, 0, 0, 4, 1, 52, 13>>
    @@ "TEMP-6500"  :> <<166, 1, 0, 0, 0, 4, 1, 52, 6>>
    @@ "TEMP-10000" :> <<166, 1, 0, 0, 0, 4, 1, 52, 9>>

\* the command table of revision r
commandsOf(r) == IF r = 1 THEN commands ELSE commandsPreFramed

\* lookup that reports every name as found
lookupAlwaysOk(r, name) ==
    IF name \in DOMAIN commandsOf(r)
    THEN [val |-> commandsOf(r)[name], ok |-> TRUE]
    ELSE [val |-> <<>>, ok |-> TRUE]

\* val, ok := commands[*cmdFlag]: the zero value "" when the key is absent
lookup(r, name) ==
    IF name \in DOMAIN commandsOf(r)
    THEN [val |-> commandsOf(r)[name], ok |-> TRUE]
    ELSE [val |-> <<>>, ok |-> FALSE]

\* ------------------------------------------------------------------------
\* strconv.Unquote of "\"" + *custFlag + "\"" (ASCII command lines)
\* ------------------------------------------------------------------------

\* the result of a failed conversion (err != nil)
UnquoteErr == [err |-> TRUE, val |-> <<>>]

\* value of the hexadecimal digit c ('0'..'9', 'a'..'f', 'A'..'F'), or -1
unhex(c) ==
    IF c >= 48 /\ c <= 57 THEN c - 48
    ELSE IF c >= 97 /\ c <= 102 THEN c - 97 + 10
    ELSE IF c >= 65 /\ c <= 70 THEN c - 65 + 10
    ELSE -1

\* utf8.MaxRune + 1: every larger (or negative int32) value is no valid rune
RuneLimit == 1114112

RECURSIVE hexValue(_, _, _, _)
\* the value of the k hexadecimal digits of s from position i on, -1 when
\* one of them is no digit; values past utf8.MaxRune are held at RuneLimit
hexValue(s, i, k, v) ==
    IF k = 0 THEN v
    ELSE IF unhex(s[i]) < 0 THEN -1
    ELSE LET w == v * 16 + unhex(s[i])
         IN  hexValue(s, i + 1, k - 1, IF w > RuneLimit THEN RuneLimit ELSE w)

\* utf8.ValidRune
ValidRune(r) == (0 <= r /\ r < 55296) \/ (57343 < r /\ r < RuneLimit)

\* utf8.AppendRune for r >= 0x80, byte(r) below (a valid rune r)
EncodeRune(r) ==
    IF r < 128 THEN <<r>>
    ELSE IF r < 2048 THEN <<192 + (r \div 64), 128 + (r % 64)>>
    ELSE IF r < 65536
         THEN <<224 + (r \div 4096), 128 + ((r \div 64) % 64), 128 + (r % 64)>>
    ELSE <<240 + (r \div 262144), 128 + ((r \div 4096) % 64),
           128 + ((r \div 64) % 64), 128 + (r % 64)>>

\* the byte of the one-letter escapes \a \b \f \n \r \t \v \\ \", or -1
simpleEscape(c) ==
    CASE c = 97  -> 7
      [] c = 98  -> 8
      [] c = 102 -> 12
      [] c = 110 -> 10
      [] c = 114 -> 13
      [] c = 116 -> 9
      [] c = 118 -> 11
      [] c = 92  -> 92
      [] c = 34  -> 34
      [] OTHER   -> -1

RECURSIVE UnquoteFrom(_, _, _)
\* the loop over UnquoteChar: s is the text between the added quotes, i the
\* read position, buf the bytes decoded so far
UnquoteFrom(s, i, buf) ==
    IF i > Len(s) THEN [err |-> FALSE, val |-> buf]
    ELSE
    LET c    == s[i]
        left == Len(s) - i
    IN
    IF c = 34 \/ c = 10 THEN UnquoteErr
    ELSE IF c # 92 THEN UnquoteFrom(s, i + 1, Append(buf, c))
    ELSE IF left = 0 THEN UnquoteErr
    ELSE
    LET e == s[i + 1] IN
    IF simpleEscape(e) >= 0
        THEN UnquoteFrom(s, i + 2, Append(buf, simpleEscape(e)))
    ELSE IF e = 120
        THEN IF left < 3 THEN UnquoteErr
             ELSE LET v == hexValue(s, i + 2, 2, 0)
                  IN  IF v < 0 THEN UnquoteErr
                      ELSE UnquoteFrom(s, i + 4, Append(buf, v))
    ELSE IF e = 117 \/ e = 85
        THEN LET k == IF e = 117 THEN 4 ELSE 8 IN
             IF left < k + 1 THEN UnquoteErr
             ELSE LET v == hexValue(s, i + 2, k, 0)
                  IN  IF v < 0 \/ ~ValidRune(v) THEN UnquoteErr
                      ELSE UnquoteFrom(s, i + 2 + k, buf \o EncodeRune(v))
    ELSE IF e >= 48 /\ e <= 55
        THEN IF left < 3 THEN UnquoteErr
             ELSE LET d1 == s[i + 2]
                      d2 == s[i + 3]
                      v  == (e - 48) * 64 + (d1 - 48) * 8 + (d2 - 48)
                  IN  IF d1 < 48 \/ d1 > 55 \/ d2 < 48 \/ d2 > 55 \/ v > 255
                      THEN UnquoteErr
                      ELSE UnquoteFrom(s, i + 4, Append(buf, v))
    ELSE UnquoteErr

\* strconv.Unquote's shortcut: a text without backslash, quote and newline
\* is returned as it is
plainText(s) == \A i \in 1..Len(s) : s[i] # 92 /\ s[i] # 34 /\ s[i] # 10

\* convval, err := strconv.Unquote(fmt.Sprintf("\"%s\"", *custFlag))
Unquote(s) ==
    IF plainText(s) THEN [err |-> FALSE, val |-> s]
    ELSE UnquoteFrom(s, 1, <<>>)

\* a resolution in which a registered name wins over -cust
resolveRegistryFirst(r, name, cust) ==
    IF r = 1 /\ cust # <<>> /\ ~lookup(r, name).ok
    THEN IF Unquote(cust).err
         THEN [val |-> <<>>, ok |-> FALSE, fatal |-> TRUE]
         ELSE [val |-> Unquote(cust).val, ok |-> TRUE, fatal |-> FALSE]
    ELSE [val |-> lookup(r, name).val, ok |-> lookup(r, name).ok,
          fatal |-> FALSE]

\* val, ok after lines 101-110 (bare-payload revision) or 304 (pre-framed):
\* a non-empty -cust replaces the registry's answer; fatal when it does not
\* decode
resolve(r, name, cust) ==
    IF r = 1 /\ cust # <<>>
    THEN IF Unquote(cust).err
         THEN [val |-> lookup(r, name).val, ok |-> lookup(r, name).ok,
               fatal |-> TRUE]
         ELSE [val |-> Unquote(cust).val, ok |-> TRUE, fatal |-> FALSE]
    ELSE [val |-> lookup(r, name).val, ok |-> lookup(r, name).ok,
          fatal |-> FALSE]

\* ------------------------------------------------------------------------
\* Inputs: command lines, the port's line settings, the device's answers
\* ------------------------------------------------------------------------

\* the -cust text of n letters 'A', 'B', ... (no escapes): n payload bytes
LongCust(n) == [i \in 1..n |-> 65 + (i % 26)]

\* the -cust texts tried (the empty text is "no -cust")
CustInputs ==
    { <<92, 120, 49, 56, 92, 120, 48, 50>>,   \* \x18\x02
      <<65>>,                                 \* A
      <<92, 48, 48, 48, 92, 110, 92, 34>>,    \* \000\n\"
      <<92, 117, 48, 48, 101, 57>>,           \* \u00e9
      <<92, 113>>,                            \* \q   (no escape)
      <<65, 34, 66>>,                         \* A"B  (bare quote)
      <<65, 92>> }                            \* A\   (dangling backslash)
    \cup { LongCust(n) : n \in MinLongCust..MaxCustLen }

\* the -cmd names tried with revision r: every key, the empty name, a
\* name that is no key
CmdNames(r) == (DOMAIN commandsOf(r)) \cup {"", "BOGUS"}

\* the -speed values accepted by the switch
ValidSpeeds == {1200, 9600, 19200, 38400, 57600, 115200}

\* the -speed values tried
Speeds == ValidSpeeds \cup {4800, 0}

\* the parsed flags of one invocation
Args ==
    { a \in [rev : {1}, cmd : CmdNames(1), cust : {<<>>} \cup CustInputs,
             alt : BOOLEAN, help : BOOLEAN, speed : Speeds] :
          a.cust # <<>> => a.cmd \in {"", "ON", "BOGUS"} }
    \cup [rev : {2}, cmd : CmdNames(2), cust : {<<>>},
          alt : {FALSE}, help : BOOLEAN, speed : Speeds]

\* type Termios struct: a zero Cc array
ZeroCc == [i \in 1..20 |-> 0]

\* var termios Termios: the zero value
ZeroTermios ==
    [Iflag |-> {}, Oflag |-> {}, Cflag |-> {}, Lflag |-> {}, Cc |-> ZeroCc]

\* line settings a port may hold when the program starts
PortSettings ==
    { \* a terminal's defaults: ICRNL|IXON, OPOST|ONLCR, B38400|CS8|CREAD,
      \* ISIG|ICANON|ECHO|ECHOE|ECHOK|IEXTEN|ECHOCTL|ECHOKE
      [Iflag |-> Word(0, 1280), Oflag |-> Word(0, 5), Cflag |-> Word(0, 191),
       Lflag |-> Word(0, 35387), Cc |-> [i \in 1..20 |-> i]],
      \* nothing set
      ZeroTermios,
      \* every bit set
      [Iflag |-> 0..31, Oflag |-> 0..31, Cflag |-> 0..31, Lflag |-> 0..31,
       Cc |-> [i \in 1..20 |-> 255]],
      \* B115200|CS7|CSTOPB|PARENB|PARODD|HUPCL|CRTSCTS, raw input
      [Iflag |-> {}, Oflag |-> {}, Cflag |-> Word(32768, 5986),
       Lflag |-> {}, Cc |-> ZeroCc] }

\* longest answer of the device
MaxRespLen == 33

\* what the device does once the frame was written: keep silent, hang up,
\* or answer with some bytes
DeviceBehaviours ==
    { [kind |-> "silent", data |-> <<>>],
      [kind |-> "hangup", data |-> <<>>],
      [kind |-> "data", data |-> <<33, 1, 0, 0, 4, 1, 0, 0, 37>>],
      [kind |-> "data", data |-> <<33, 1, 0, 0, 4, 1, 0, 0, 255>>],
      [kind |-> "data", data |-> [i \in 1..MaxRespLen |-> 100 + i]] }

\* ------------------------------------------------------------------------
\* Line configuration and frame assembly
\* ------------------------------------------------------------------------

\* a switch whose default case does not end the run
speedKnownAny(speed) == speed = speed

\* the switch on *speedFlag: the baud code or-ed into Cflag; no code (and
\* log.Fatal) in the default case
speedKnown(speed) == speed \in {1200, 9600, 19200, 38400, 57600, 115200}

speedCode(speed) ==
    CASE speed = 1200   -> B1200
      [] speed = 9600   -> B9600
      [] speed = 19200  -> B19200
      [] speed = 38400  -> B38400
      [] speed = 57600  -> B57600
      [] speed = 115200 -> B115200
      [] OTHER          -> {}

\* the flag statements without termios.Cflag &= ^uint32(CBAUD)
clearAndSetCflagKeepBaud(c) ==
    ((((c \ CRTSCTS) \ PARENB) \ CSTOPB) \cup CS8 \cup CLOCAL) \cup CREAD

\* termios.Cflag after the seven &= ^ and |= statements
clearAndSetCflag(c) ==
    (((((c \ CBAUD) \ CRTSCTS) \ PARENB) \ CSTOPB) \cup CS8 \cup CLOCAL)
        \cup CREAD

\* termios.Iflag ^= syscall.IGNPAR in the place of |=
setIflagToggle(r, f) ==
    IF r = 1 THEN (f \ IGNPAR) \cup (IGNPAR \ f) ELSE f

\* termios.Iflag |= syscall.IGNPAR (bare-payload revision only)
setIflag(r, f) == IF r = 1 THEN f \cup IGNPAR ELSE f

\* the termios structure after the configuration statements, for a speed
\* the switch knows
configure(r, t, speed) ==
    [t EXCEPT !.Cflag = clearAndSetCflag(t.Cflag) \cup speedCode(speed),
              !.Iflag = setIflag(r, t.Iflag)]

\* a length byte that counts one byte too many in standard mode
lengthByteOffByOne(v, alt) ==
    IF alt THEN ToByte(Len(v) + 4) ELSE ToByte(Len(v) + 3)

\* byte(len(val)+4) / byte(len(val)+2)
lengthByte(v, alt) == IF alt THEN ToByte(Len(v) + 4) ELSE ToByte(Len(v) + 2)

\* the request bytes before the checksum is appended
frameBody(v, alt) ==
    LET r0 == IF ~alt THEN Prefix ELSE <<>>
        r1 == Append(r0, lengthByte(v, alt))
        r2 == Append(r1, 1)
        r3 == IF alt THEN Append(r2, 0) ELSE r2
    IN  r3 \o v

\* request of the bare-payload revision
encode(v, alt) == Append(frameBody(v, alt), csum(frameBody(v, alt)))

\* a pre-framed request whose checksum leaves out the address prefix
encodePreFramedSkipPrefix(v) == Append(v, csum(SubSeq(v, 6, Len(v))))

\* request of the pre-framed revision: append([]byte(val), csum(val))
encodePreFramed(v) == Append(v, csum(v))

\* ------------------------------------------------------------------------
\* The program
\* ------------------------------------------------------------------------

VARIABLES
    args,      \* the parsed flags: rev, cmd, cust, alt, help, speed
    pc,        \* the statement main is at
    val,       \* the payload (pre-framed revision: the frame without checksum)
    ok,        \* the command was resolved
    openErr,   \* err of os.OpenFile, looked at only after the usage check
    termios,   \* main's termios variable
    request,   \* main's request slice
    resp,      \* main's response buffer
    n,         \* the byte count file.Read returned
    line,      \* the line settings the port holds
    wire,      \* the bytes the port accepted, in order
    device,    \* what the device does after the frame
    ops,       \* the operations made on the port, in order, with success
    printed,   \* the "Request:" and "Response:" lines printed
    exit       \* "" while running, else how the process ended

vars == <<args, pc, val, ok, openErr, termios, request, resp, n, line, wire,
          device, ops, printed, exit>>

\* no device behaviour chosen yet
NoDevice == [kind |-> "none", data |-> <<>>]

Init ==
    /\ args \in Args
    /\ line \in PortSettings
    /\ pc = "resolve"
    /\ val = <<>>
    /\ ok = FALSE
    /\ openErr = FALSE
    /\ termios = ZeroTermios
    /\ request = <<>>
    /\ resp = <<>>
    /\ n = 0
    /\ wire = <<>>
    /\ device = NoDevice
    /\ ops = <<>>
    /\ printed = <<>>
    /\ exit = ""

\* one operation on the port, and whether it succeeded
Op(name, success) == [op |-> name, ok |-> success]

\* log.Fatal(...): the process ends with status 1
Fatal(what) ==
    /\ pc' = "exit"
    /\ exit' = what

\* val, ok := commands[*cmdFlag]; the -cust override
Resolve ==
    /\ pc = "resolve"
    /\ LET r == resolve(args.rev, args.cmd, args.cust) IN
       /\ val' = r.val
       /\ ok' = r.ok
       /\ IF r.fatal
          THEN Fatal("fatal: strconv.Unquote")
          ELSE pc' = "open" /\ exit' = exit
    /\ UNCHANGED <<args, openErr, termios, request, resp, n, line, wire,
                   device, ops, printed>>

\* file, err := os.OpenFile(*portFlag, os.O_RDWR, 0666)
OpenFile ==
    /\ pc = "open"
    /\ \E e \in BOOLEAN :
          /\ openErr' = e
          /\ ops' = Append(ops, Op("open", ~e))
    /\ pc' = "usage"
    /\ UNCHANGED <<args, val, ok, termios, request, resp, n, line, wire,
                   device, printed, exit>>

\* if *helpFlag || !ok { ...; os.Exit(0) }; if err != nil { log.Fatal(err) }
Usage ==
    /\ pc = "usage"
    /\ IF args.help \/ ~ok
       THEN pc' = "exit" /\ exit' = "usage"
       ELSE IF openErr
            THEN Fatal("fatal: open")
            ELSE pc' = "flush" /\ exit' = exit
    /\ UNCHANGED <<args, val, ok, openErr, termios, request, resp, n, line,
                   wire, device, ops, printed>>

\* a flush whose error is not looked at
FlushIgnoreError ==
    /\ pc = "flush"
    /\ \E errnop \in BOOLEAN :
          ops' = Append(ops, Op("flush", ~errnop))
    /\ pc' = "tcgets"
    /\ UNCHANGED <<args, val, ok, openErr, termios, request, resp, n, line,
                   wire, device, printed, exit>>

\* ioctl(fd, TCFLSH, TCIOFLUSH)
Flush ==
    /\ pc = "flush"
    /\ \E errnop \in BOOLEAN :
          /\ ops' = Append(ops, Op("flush", ~errnop))
          /\ IF errnop
             THEN Fatal("fatal: flush")
             ELSE pc' = "tcgets" /\ exit' = exit
    /\ UNCHANGED <<args, val, ok, openErr, termios, request, resp, n, line,
                   wire, device, printed>>

\* ioctl(fd, TCGETS, &termios)
TcGets ==
    /\ pc = "tcgets"
    /\ \E errnop \in BOOLEAN :
          /\ ops' = Append(ops, Op("tcgets", ~errnop))
          /\ IF errnop
             THEN Fatal("fatal: tcgets") /\ termios' = termios
             ELSE pc' = "configure" /\ exit' = exit /\ termios' = line
    /\ UNCHANGED <<args, val, ok, openErr, request, resp, n, line, wire,
                   device, printed>>

\* the flag statements and the switch on *speedFlag
Configure ==
    /\ pc = "configure"
    /\ IF speedKnown(args.speed)
       THEN /\ termios' = configure(args.rev, termios, args.speed)
            /\ pc' = "tcsets"
            /\ exit' = exit
       ELSE /\ termios' = [termios EXCEPT
                             !.Cflag = clearAndSetCflag(termios.Cflag),
                             !.Iflag = setIflag(args.rev, termios.Iflag)]
            /\ Fatal("fatal: Unknown speed")
    /\ UNCHANGED <<args, val, ok, openErr, request, resp, n, line, wire,
                   device, ops, printed>>

\* a write of the line settings whose error is not looked at
TcSetsIgnoreError ==
    /\ pc = "tcsets"
    /\ \E errnop \in BOOLEAN :
          /\ ops' = Append(ops, Op("tcsets", ~errnop))
          /\ line' = IF errnop THEN line ELSE termios
    /\ pc' = "encode"
    /\ UNCHANGED <<args, val, ok, openErr, termios, request, resp, n, wire,
                   device, printed, exit>>

\* ioctl(fd, TCSETS, &termios)
TcSets ==
    /\ pc = "tcsets"
    /\ \E errnop \in BOOLEAN :
          /\ ops' = Append(ops, Op("tcsets", ~errnop))
          /\ IF errnop
             THEN Fatal("fatal: tcsets") /\ line' = line
             ELSE pc' = "encode" /\ exit' = exit /\ line' = termios
    /\ UNCHANGED <<args, val, ok, openErr, termios, request, resp, n, wire,
                   device, printed>>

\* the request is assembled and printed
Encode ==
    /\ pc = "encode"
    /\ request' = IF args.rev = 1 THEN encode(val, args.alt)
                                  ELSE encodePreFramed(val)
    /\ printed' = Append(printed, <<"Request", printhex(request', Len(request'))>>)
    /\ pc' = "write"
    /\ UNCHANGED <<args, val, ok, openErr, termios, resp, n, line, wire,
                   device, ops, exit>>

\* the byte counts file.Write may report for a slice of k bytes
WriteCounts(k) == {0, 1, k - 1, k} \cap (0..k)

\* a frame write whose error is not looked at
WriteIgnoreShort ==
    /\ pc = "write"
    /\ \E m \in WriteCounts(Len(request)) :
          /\ wire' = wire \o SubSeq(request, 1, m)
          /\ ops' = Append(ops, Op("write", m = Len(request)))
    /\ pc' = "read"
    /\ device' \in DeviceBehaviours
    /\ UNCHANGED <<args, val, ok, openErr, termios, request, resp, n, line,
                   printed, exit>>

\* _, err = file.Write(request): err != nil exactly when fewer bytes than
\* len(request) were accepted
Write ==
    /\ pc = "write"
    /\ \E m \in WriteCounts(Len(request)) :
          /\ wire' = wire \o SubSeq(request, 1, m)
          /\ ops' = Append(ops, Op("write", m = Len(request)))
          /\ IF m # Len(request)
             THEN Fatal("fatal: file.Write") /\ device' = device
             ELSE /\ pc' = "read"
                  /\ exit' = exit
                  /\ device' \in DeviceBehaviours
    /\ UNCHANGED <<args, val, ok, openErr, termios, request, resp, n, line,
                   printed>>

\* resp := make([]byte, 32)
ZeroResp == [i \in 1..RespSize |-> 0]

\* the byte counts file.Read may report when the device sent k > 0 bytes
ReadCounts(k) == {1, IF k < RespSize THEN k ELSE RespSize}

\* a read that gives up on a silent device
ReadWithTimeout ==
    /\ pc = "read"
    /\ IF device.kind \in {"hangup", "silent"}
       THEN /\ resp' = ZeroResp
            /\ n' = 0
            /\ ops' = Append(ops, Op("read", FALSE))
            /\ printed' = printed
            /\ Fatal("fatal: file.Read")
       ELSE \E m \in ReadCounts(Len(device.data)) :
            /\ resp' = [i \in 1..RespSize |->
                          IF i <= m THEN device.data[i] ELSE 0]
            /\ n' = m
            /\ ops' = Append(ops, Op("read", TRUE))
            /\ printed' = Append(printed, <<"Response", printhex(resp', m)>>)
            /\ pc' = "exit"
            /\ exit' = "done"
    /\ UNCHANGED <<args, val, ok, openErr, termios, request, line, wire,
                   device>>

\* a read that rejects an answer whose last byte is not the checksum of the
\* bytes before it
ReadValidating ==
    /\ pc = "read"
    /\ device.kind \in {"hangup", "data"}
    /\ IF device.kind = "hangup"
       THEN /\ resp' = ZeroResp
            /\ n' = 0
            /\ ops' = Append(ops, Op("read", FALSE))
            /\ printed' = printed
            /\ Fatal("fatal: file.Read")
       ELSE \E m \in ReadCounts(Len(device.data)) :
            /\ resp' = [i \in 1..RespSize |->
                          IF i <= m THEN device.data[i] ELSE 0]
            /\ n' = m
            /\ ops' = Append(ops, Op("read", TRUE))
            /\ IF csum(SubSeq(resp', 1, m - 1)) = resp'[m]
               THEN /\ printed' = Append(printed,
                                         <<"Response", printhex(resp', m)>>)
                    /\ pc' = "exit"
                    /\ exit' = "done"
               ELSE /\ printed' = printed
                    /\ Fatal("fatal: checksum")
    /\ UNCHANGED <<args, val, ok, openErr, termios, request, line, wire,
                   device>>

\* n, err := file.Read(resp); printhex(resp, n).  A silent device leaves the
\* call blocked: no step.
Read ==
    /\ pc = "read"
    /\ device.kind \in {"hangup", "data"}
    /\ IF device.kind = "hangup"
       THEN /\ resp' = ZeroResp
            /\ n' = 0
            /\ ops' = Append(ops, Op("read", FALSE))
            /\ printed' = printed
            /\ Fatal("fatal: file.Read")
       ELSE \E m \in ReadCounts(Len(device.data)) :
            /\ resp' = [i \in 1..RespSize |->
                          IF i <= m THEN device.data[i] ELSE 0]
            /\ n' = m
            /\ ops' = Append(ops, Op("read", TRUE))
            /\ printed' = Append(printed, <<"Response", printhex(resp', m)>>)
            /\ pc' = "exit"
            /\ exit' = "done"
    /\ UNCHANGED <<args, val, ok, openErr, termios, request, line, wire,
                   device>>

Next ==
    \/ Resolve
    \/ OpenFile
    \/ Usage
    \/ Flush
    \/ TcGets
    \/ Configure
    \/ TcSets
    \/ Encode
    \/ Write
    \/ Read

Spec == Init /\ [][Next]_vars

\* The program started on a port that an earlier run with the same revision
\* and the same (valid) -speed has configured
InitReconfigure ==
    /\ args \in {a \in Args : speedKnown(a.speed)}
    /\ line \in {configure(args.rev, t, args.speed) : t \in PortSettings}
    /\ pc = "resolve"
    /\ val = <<>>
    /\ ok = FALSE
    /\ openErr = FALSE
    /\ termios = ZeroTermios
    /\ request = <<>>
    /\ resp = <<>>
    /\ n = 0
    /\ wire = <<>>
    /\ device = NoDevice
    /\ ops = <<>>
    /\ printed = <<>>
    /\ exit = ""

SpecReconfigure == InitReconfigure /\ [][Next]_vars

\* ------------------------------------------------------------------------
\* Properties
\* ------------------------------------------------------------------------

\* the names of the operations made on the port so far, in order
OpNames == [i \in 1..Len(ops) |-> ops[i].op]

\* operation name was made on the port (with any result)
Attempted(name) == \E i \in 1..Len(ops) : ops[i].op = name

\* operation name was made on the port and succeeded
Succeeded(name) == \E i \in 1..Len(ops) : ops[i] = Op(name, TRUE)

\* the exclusive-or of the numbers of s, bit by bit: bit b of the result is
\* the parity of the number of elements that have bit b set
XorFold(s) ==
    LET ones(b) == Cardinality({i \in 1..Len(s) : (s[i] \div (2 ^ b)) % 2 = 1})
        bit(b)  == (ones(b) % 2) * (2 ^ b)
    IN  bit(0) + bit(1) + bit(2) + bit(3) + bit(4) + bit(5) + bit(6) + bit(7)

\* the standard-mode frame of payload p without its checksum
StandardBody(p) == <<166, 1, 0, 0, 0>> \o <<Len(p) + 2, 1>> \o p

\* C1: in standard mode (bare-payload revision, no -alt), whenever the frame
\* of a payload P of N <= 253 bytes was written, the bytes on the wire are
\* exactly A6 01 00 00 00 || N+2 || 01 || P || c with c the exclusive-or of
\* all bytes before it; a registered command sends its table entry, and ON
\* sends A6 01 00 00 00 04 01 18 02 B8.
C1_StandardFrame ==
    (args.rev = 1 /\ ~args.alt /\ Succeeded("write") /\ Len(val) <= 253) =>
        /\ wire = Append(StandardBody(val), XorFold(StandardBody(val)))
        /\ request = wire
        /\ (args.cust = <<>>) => val = commands[args.cmd]
        /\ (args.cust = <<>> /\ args.cmd = "ON") =>
               wire = <<166, 1, 0, 0, 0, 4, 1, 24, 2, 184>>

\* C1 witness: a payload of 253 bytes was framed and written in standard mode
C1_Witness ==
    /\ args.rev = 1 /\ ~args.alt /\ Succeeded("write")
    /\ Len(val) = 253
    /\ wire[6] = 255

\* C2 (as claimed): a payload too long for the one-byte length field
\* (more than 253 bytes in standard mode, more than 251 with -alt) never
\* gets a frame onto the port: nothing is written
C2_TooLongNeverWritten ==
    (args.rev = 1 /\ Len(val) + (IF args.alt THEN 4 ELSE 2) > 255) =>
        /\ wire = <<>>
        /\ ~Attempted("write")

\* C3: with a -speed outside {1200, 9600, 19200, 38400, 57600, 115200} the
\* line settings are never written back, no frame is written, no read is
\* made, the run never completes, and a run that got as far as the speed
\* switch ends with the fatal "Unknown speed" error
C3_UnknownSpeedFatal ==
    (args.speed \notin ValidSpeeds) =>
        /\ ~Attempted("tcsets") /\ ~Attempted("write") /\ ~Attempted("read")
        /\ wire = <<>>
        /\ pc \notin {"tcsets", "encode", "write", "read"}
        /\ exit # "done"
        /\ (pc = "exit" /\ Succeeded("tcgets")) => exit = "fatal: Unknown speed"

\* C3 witness: speed 4800 reached the switch and the run ended there
C3_Witness ==
    /\ args.speed = 4800
    /\ Succeeded("tcgets")
    /\ exit = "fatal: Unknown speed"

\* the operations of the transaction proper (everything but the open)
PortIO == {"flush", "tcgets", "tcsets", "write", "read"}

\* C4: when the command name is no key of the registry (the empty name
\* included) and no -cust is given, the run ends as a usage exit and none of
\* flush, read or write of the line settings, frame write, read is made
C4_UnknownCommandUsage ==
    (args.cmd \notin DOMAIN commandsOf(args.rev) /\ args.cust = <<>>) =>
        /\ \A i \in 1..Len(ops) : ops[i].op \notin PortIO
        /\ wire = <<>>
        /\ pc \in {"resolve", "open", "usage", "exit"}
        /\ (pc = "exit") => exit = "usage"

\* C4 witness: the unknown name BOGUS ended in the usage exit
C4_Witness ==
    /\ args.cmd = "BOGUS" /\ args.cust = <<>> /\ ~args.help
    /\ exit = "usage"

\* C5 (as claimed): when the frame is written the port's settings have
\* canonical input processing off: ISIG (0x1), ICANON (0x2) and ECHO (0x8)
\* are clear in the local flags
C5_RawModeAtWrite ==
    Attempted("write") => line.Lflag \cap {0, 1, 3} = {}

\* the baud code of a rate as bit positions of the control flags
\* (B1200 = 0x9, B9600 = 0xd, B19200 = 0xe, B38400 = 0xf, B57600 = 0x1001,
\* B115200 = 0x1002)
RateBits(speed) ==
    CASE speed = 1200   -> {0, 3}
      [] speed = 9600   -> {0, 2, 3}
      [] speed = 19200  -> {1, 2, 3}
      [] speed = 38400  -> {0, 1, 2, 3}
      [] speed = 57600  -> {0, 12}
      [] speed = 115200 -> {1, 12}

\* control flags c are what the configuration makes of c0 for the rate
ConfiguredCflag(c, c0, speed) ==
    /\ 31 \notin c /\ 8 \notin c /\ 6 \notin c
    /\ {4, 5} \subseteq c /\ 11 \in c /\ 7 \in c
    /\ c \cap {0, 1, 2, 3, 12} = RateBits(speed)
    /\ \A b \in (0..31) \ {0, 1, 2, 3, 4, 5, 6, 7, 8, 11, 12, 31} :
           b \in c <=> b \in c0

\* C6: for every control-flag word read from the port and every valid rate,
\* the control flags handed to the write-back (and held by the port after
\* it) have CRTSCTS, PARENB, CSTOPB clear, CS8, CLOCAL, CREAD set, the baud
\* bits equal to the code of the requested rate, and every other bit as read
C6_CflagConfigured ==
    /\ (pc = "tcsets") =>
           ConfiguredCflag(termios.Cflag, line.Cflag, args.speed)
    /\ Succeeded("tcsets") =>
           /\ line.Cflag = termios.Cflag
           /\ ConfiguredCflag(line.Cflag, line.Cflag, args.speed)

\* C6 witness: a port with every control bit set is about to be written
\* back at 9600 baud
C6_Witness ==
    /\ pc = "tcsets"
    /\ line.Cflag = 0..31
    /\ args.speed = 9600

\* the order of the port operations of a run
OpOrder == <<"open", "flush", "tcgets", "tcsets", "write", "read">>

\* C7: the operations on the port are made in the order flush, read of the
\* line settings, write of the line settings, frame write, read (after the
\* open); a frame write is preceded by exactly one write of the line
\* settings, and that one succeeded
C7_OperationOrder ==
    /\ Len(ops) <= Len(OpOrder)
    /\ OpNames = SubSeq(OpOrder, 1, Len(ops))
    /\ \A i \in 1..Len(ops) :
           ops[i].op = "write" =>
               /\ Cardinality({j \in 1..Len(ops) : ops[j].op = "tcsets"}) = 1
               /\ \E j \in 1..(i - 1) : ops[j] = Op("tcsets", TRUE)
               /\ \E j \in 1..(i - 1) : ops[j] = Op("flush", TRUE)

\* C7 witness: a complete transaction
C7_Witness ==
    /\ exit = "done"
    /\ OpNames = OpOrder

\* C8: when the write accepts fewer bytes than the frame has, the run ends
\* in the fatal write error: one write call only, no read
C8_ShortWriteFatal ==
    (Attempted("write") /\ Len(wire) < Len(request)) =>
        /\ pc = "exit"
        /\ exit = "fatal: file.Write"
        /\ Cardinality({i \in 1..Len(ops) : ops[i].op = "write"}) = 1
        /\ ~Attempted("read")
        /\ wire = SubSeq(request, 1, Len(wire))

\* C8 witness: all bytes of the frame but the last were accepted
C8_Witness ==
    /\ Attempted("write")
    /\ Len(wire) = Len(request) - 1
    /\ Len(wire) > 0

\* C9: a failed port step is the last operation of the run (nothing follows
\* it, it is not made again), the run then ends without completing, and no
\* operation is made twice
C9_NoRetry ==
    /\ \A i \in 1..Len(ops) : ~ops[i].ok => i = Len(ops)
    /\ \A i, j \in 1..Len(ops) : ops[i].op = ops[j].op => i = j
    /\ (\E i \in 1..Len(ops) : ~ops[i].ok) =>
           /\ pc \in {"usage", "exit"}
           /\ exit # "done"

\* C9 witness: the read of the line settings failed and the run ended
C9_Witness ==
    /\ Len(ops) = 3
    /\ ops[3] = Op("tcgets", FALSE)
    /\ pc = "exit"

\* the -alt frame of payload p without its checksum
AltBody(p) == <<Len(p) + 4, 1, 0>> \o p

\* C10 (as claimed): with -alt, for every payload P of N bytes the frame
\* written is exactly N+4 || 01 || 00 || P || c, c the exclusive-or of the
\* bytes before it
C10_AltFrame ==
    (args.rev = 1 /\ args.alt /\ Succeeded("write")) =>
        wire = Append(AltBody(val), XorFold(AltBody(val)))

\* the bytes a -cust text of the inputs stands for: \x18\x02 is 18 02,
\* \000\n\" is 00 0A 22, \u00e9 is C3 A9, a text of plain letters is its
\* own bytes
CustBytes(c) ==
    CASE c = <<92, 120, 49, 56, 92, 120, 48, 50>> -> <<24, 2>>
      [] c = <<92, 48, 48, 48, 92, 110, 92, 34>>  -> <<0, 10, 34>>
      [] c = <<92, 117, 48, 48, 101, 57>>         -> <<195, 169>>
      [] OTHER -> [i \in 1..Len(c) |-> IF Len(c) = 1 THEN 65 ELSE 65 + (i % 26)]

\* the frame of payload p without its checksum, as a registered payload gets
\* it: prefix unless -alt, length byte, device id, extra 00 with -alt
FrameBodyOf(p, alt) ==
    IF alt THEN <<(Len(p) + 4) % 256, 1, 0>> \o p
    ELSE <<166, 1, 0, 0, 0, (Len(p) + 2) % 256, 1>> \o p

\* C11: when -cust is non-empty and decodes, the payload is the decoded
\* bytes whatever the command name is (a key, no key, empty), the run is
\* not a usage exit for the name's sake, and the frame written is assembled
\* from these bytes as for a registered payload: -cust \x18\x02 sends the
\* very frame of ON
C11_CustomPayload ==
    (args.rev = 1 /\ args.cust # <<>> /\ pc # "resolve"
         /\ exit # "fatal: strconv.Unquote") =>
        /\ val = CustBytes(args.cust)
        /\ ok
        /\ (~args.help /\ pc = "exit") => exit # "usage"
        /\ Succeeded("write") =>
               /\ wire = Append(FrameBodyOf(CustBytes(args.cust), args.alt),
                                XorFold(FrameBodyOf(CustBytes(args.cust),
                                                    args.alt)))
               /\ (args.cust = <<92, 120, 49, 56, 92, 120, 48, 50>>
                       /\ ~args.alt) =>
                      wire = <<166, 1, 0, 0, 0, 4, 1, 24, 2, 184>>

\* C11 witness: with the registered name ON and -cust \000\n\" the frame of
\* 00 0A 22 was written
C11_Witness ==
    /\ args.rev = 1 /\ args.cmd = "ON" /\ ~args.alt
    /\ args.cust = <<92, 48, 48, 48, 92, 110, 92, 34>>
    /\ Succeeded("write")
    /\ SubSeq(wire, 6, 10) = <<5, 1, 0, 10, 34>>

\* the "Response" lines printed
ResponseLines ==
    {i \in 1..Len(printed) : printed[i][1] = "Response"}

\* C12: when the read returned n bytes, n is at most 32, the response
\* reported is exactly the first n bytes of the 32-byte buffer (the bytes
\* the device sent, in order) and nothing of the tail, and one read call
\* was made
C12_ResponseIsFirstN ==
    Succeeded("read") =>
        /\ n >= 1 /\ n <= 32
        /\ Len(resp) = 32
        /\ Cardinality(ResponseLines) = 1
        /\ \A i \in ResponseLines :
               /\ Len(printed[i][2]) = n
               /\ \A k \in 1..n : printed[i][2][k] = resp[k]
               /\ \A k \in 1..n : printed[i][2][k] = device.data[k]
        /\ Cardinality({i \in 1..Len(ops) : ops[i].op = "read"}) = 1

\* C12 witness: the read returned one byte of a longer answer
C12_Witness ==
    /\ Succeeded("read")
    /\ n = 1
    /\ Len(device.data) > 32

\* C13: whatever bytes the device returns, the run completes without an
\* error and reports them as they are; an answer whose last byte is not the
\* exclusive-or of the bytes before it is no exception
C13_ResponseNotValidated ==
    (pc = "exit" /\ device.kind = "data") =>
        /\ exit = "done"
        /\ \E i \in 1..Len(printed) :
               printed[i] = <<"Response", SubSeq(device.data, 1, n)>>

\* C13 witness: the nine bytes 21 01 00 00 04 01 00 00 FF (checksum would be
\* 25) were reported by a completed run
C13_Witness ==
    /\ exit = "done"
    /\ n = 9
    /\ device.data = <<33, 1, 0, 0, 4, 1, 0, 0, 255>>
    /\ XorFold(SubSeq(device.data, 1, 8)) # 255

\* C14: no timeout on the read of the response: while the device keeps
\* silent after the frame was written the run stays in the read, with no
\* result and no error, and no step takes it out; the run leaves the read
\* only by the read returning, and then it ends
C14_ReadBlocksForever ==
    /\ [](pc = "read" => exit = "")
    /\ [][ /\ (pc = "read" /\ device.kind = "silent") =>
                  (pc' = "read" /\ exit' = "" /\ ops' = ops)
           /\ (pc = "read" /\ pc' # "read") =>
                  /\ pc' = "exit"
                  /\ exit' \in {"done", "fatal: file.Read"}
                  /\ Len(ops') = Len(ops) + 1
                  /\ ops'[Len(ops')].op = "read" ]_vars

\* C14 witness: the frame was written and the device keeps silent
C14_Witness ==
    /\ pc = "read"
    /\ device.kind = "silent"
    /\ Succeeded("write")
    /\ exit = ""

\* C15: on a port that holds the result of a configuration with the same
\* rate, the structure handed to the write-back is the one the port holds,
\* the port's settings never change, and the configuration raises no error
C15_ReconfigureIdempotent ==
    /\ [](pc = "tcsets" => termios = line)
    /\ [](exit # "fatal: Unknown speed")
    /\ [][line' = line]_vars

\* C15 witness: a port configured before (from settings with every bit set)
\* was configured again at 57600 baud and written back
C15_Witness ==
    /\ Succeeded("tcsets")
    /\ args.speed = 57600
    /\ line.Lflag = 0..31
    /\ line.Cflag \cap {0, 1, 2, 3, 12} = {0, 12}

\* C16: every entry of the pre-framed table is A6 01 00 00 00 || L || 01 || P
\* with L = len(P) + 2, the request made of it (the entry followed by the
\* exclusive-or of its bytes) is the standard-mode frame of the bare-payload
\* revision for P, and for a name of both tables it is the frame the
\* bare-payload revision sends for that name
C16_PreFramedEqualsStandard ==
    (args.rev = 2 /\ request # <<>>) =>
        LET P == SubSeq(val, 8, Len(val)) IN
        /\ val = commandsPreFramed[args.cmd]
        /\ Len(val) >= 7
        /\ SubSeq(val, 1, 5) = <<166, 1, 0, 0, 0>>
        /\ val[6] = Len(P) + 2
        /\ val[7] = 1
        /\ request = Append(val, XorFold(val))
        /\ request = encode(P, FALSE)
        /\ (args.cmd \in DOMAIN commands) =>
               request = encode(commands[args.cmd], FALSE)

\* C16 witness: the pre-framed revision wrote the request of PIP-TR, a name
\* of both tables
C16_Witness ==
    /\ args.rev = 2
    /\ args.cmd = "PIP-TR"
    /\ args.cmd \in DOMAIN commands
    /\ Succeeded("write")
    /\ wire = request

====
